---------------------------- MODULE Spec2Model ----------------------------
(***************************************************************************)
(* Model of bubble_sort.cpp: main builds a vector, prints it, sorts it in  *)
(* place with bubbleSort and prints it again.                              *)
(*                                                                         *)
(* The program is single-threaded; every statement of the three functions  *)
(* is one action and pc names the statement about to run.  Indices i, j    *)
(* and k are 0-based as in the source; the TLA+ sequence arr is 1-based,   *)
(* so the source's arr[j] is arr[j + 1] here.                              *)
(*                                                                         *)
(* Variables input, tag, passes, cmps, swaps and touched are history       *)
(* variables: no statement of the program reads them.                      *)
(***************************************************************************)
EXTENDS Integers, Sequences, FiniteSets

VARIABLES
    arr,      \* std::vector<int> arr of main, aliased by both callees
    pc,       \* the statement about to run
    retpc,    \* where the running callee returns to in main
    n,        \* bubbleSort: int n
    i,        \* bubbleSort: outer loop counter
    j,        \* bubbleSort: inner loop counter
    k,        \* printArray: position of the range-for iterator
    num,      \* printArray: int num
    out,      \* everything written to std::cout, as a token sequence
    status,   \* <<>> while main runs, <<c>> once main returned c
    input,    \* history: the vector as constructed
    tag,      \* history: tag[p] is the original index of the element at p
    passes,   \* history: outer iterations completed
    cmps,     \* history: evaluations of arr[j] > arr[j + 1]
    swaps,    \* history: calls of std::swap
    touched   \* history: touched[p] is the last pass that accessed p, or -1

vars == <<arr, pc, retpc, n, i, j, k, num, out, status,
          input, tag, passes, cmps, swaps, touched>>

---------------------------------------------------------------------------
(* Bounds of the model *)

\* longest vector drawn as an input
MaxLen == 4

\* element values drawn for the inputs: three distinct integers, so that
\* duplicates, ascending and descending pairs all occur
Values == {1, 3, 5}

RECURSIVE SeqsUpTo(_)
SeqsUpTo(len) ==
    IF len = 0 THEN {<<>>}
    ELSE SeqsUpTo(len - 1) \cup [1..len -> Values]

Inputs == SeqsUpTo(MaxLen)

\* the vector main constructs
MainInput == <<64, 34, 25, 12, 22, 11, 90>>

---------------------------------------------------------------------------
(* std::cout tokens *)

IntTok(v) == [kind |-> "int", num |-> v, text |-> ""]
StrTok(s) == [kind |-> "str", num |-> 0, text |-> s]
Endl == [kind |-> "endl", num |-> 0, text |-> ""]

\* The two labels main writes.  The source's literals are Chinese text for
\* "array before sorting: " and "array after sorting: "; they are written
\* here in ASCII.
LabelBefore == StrTok("array before sorting: ")
LabelAfter == StrTok("array after sorting: ")

---------------------------------------------------------------------------
(* Element access *)

InBounds(a, idx) == idx >= 0 /\ idx <= Len(a) - 1

\* operator[] of std::vector is unchecked: a read outside the storage
\* yields an arbitrary value
ReadVals(a, idx) == IF InBounds(a, idx) THEN {a[idx + 1]} ELSE Values

\* a mutant of SwapAt: the exchange written without a temporary
SwapAt_Overwrite(a, p, q) ==
    IF InBounds(a, p) /\ InBounds(a, q)
    THEN [a EXCEPT ![p + 1] = a[q + 1]]
    ELSE a

\* std::swap(a[p], a[q]); a write outside the storage does not land in the
\* vector
SwapAt(a, p, q) ==
    IF InBounds(a, p) /\ InBounds(a, q)
    THEN [a EXCEPT ![p + 1] = a[q + 1], ![q + 1] = a[p + 1]]
    ELSE a

\* mutants of Greater
Greater_Less(x, y) == x < y
Greater_NotEqual(x, y) == x # y
Greater_OrEqual(x, y) == x >= y

\* the test arr[j] > arr[j + 1]
Greater(x, y) == x > y

\* mutants of OuterGuard
OuterGuard_OnePassShort(len, oi) == oi < len - 2
OuterGuard_Inclusive(len, oi) == oi <= len - 1

\* i < n - 1, in int arithmetic (n - 1 is -1 for an empty vector)
OuterGuard(len, oi) == oi < len - 1

\* mutants of InnerGuard
InnerGuard_OffByOne(len, oi, ij) == ij < len - oi
InnerGuard_NoShrink(len, oi, ij) == ij < len - 1

\* j < n - i - 1
InnerGuard(len, oi, ij) == ij < len - oi - 1

\* a mutant of EmitElem: the separator left out
EmitElem_NoSpace(o, v) == Append(o, IntTok(v))

\* std::cout << num << " "
EmitElem(o, v) == o \o <<IntTok(v), StrTok(" ")>>

\* the history of accesses: positions p and q accessed in pass oi
Touch(t, p, q, oi) ==
    [x \in DOMAIN t |-> IF x = p + 1 \/ x = q + 1 THEN oi ELSE t[x]]

---------------------------------------------------------------------------
(* bubbleSort as a function of its argument, loop by loop *)

RECURSIVE InnerLoop(_, _, _, _)
InnerLoop(a, len, oi, ij) ==
    IF InnerGuard(len, oi, ij)
    THEN InnerLoop(IF Greater(a[ij + 1], a[ij + 2])
                   THEN SwapAt(a, ij, ij + 1) ELSE a,
                   len, oi, ij + 1)
    ELSE a

RECURSIVE OuterLoop(_, _, _)
OuterLoop(a, len, oi) ==
    IF OuterGuard(len, oi)
    THEN OuterLoop(InnerLoop(a, len, oi, 0), len, oi + 1)
    ELSE a

bubbleSortResult(s) == OuterLoop(s, Len(s), 0)

---------------------------------------------------------------------------
(* Initial states *)

InitWith(v) ==
    /\ arr = v
    /\ input = v
    /\ pc = "main_label1"
    /\ retpc = "none"
    /\ n = 0 /\ i = 0 /\ j = 0 /\ k = 0 /\ num = 0
    /\ out = <<>>
    /\ status = <<>>
    /\ tag = [p \in 1..Len(v) |-> p - 1]
    /\ passes = 0 /\ cmps = 0 /\ swaps = 0
    /\ touched = [p \in 1..Len(v) |-> -1]

\* main with any vector of the bounded input set in place of its literal
Init == \E v \in Inputs : InitWith(v)

\* main as written
MainInit == InitWith(MainInput)

---------------------------------------------------------------------------
(* main *)

mainVars == <<n, i, j, num, input, tag, passes, cmps, swaps, touched>>

MainLabel1 ==
    /\ pc = "main_label1"
    /\ out' = Append(out, LabelBefore)
    /\ pc' = "main_print1"
    /\ UNCHANGED <<arr, retpc, k, status, mainVars>>

MainPrint1 ==
    /\ pc = "main_print1"
    /\ pc' = "pa_test"
    /\ retpc' = "main_sort"
    /\ k' = 0
    /\ UNCHANGED <<arr, out, status, mainVars>>

MainSort ==
    /\ pc = "main_sort"
    /\ pc' = "bs_entry"
    /\ retpc' = "main_label2"
    /\ UNCHANGED <<arr, out, k, status, mainVars>>

MainLabel2 ==
    /\ pc = "main_label2"
    /\ out' = Append(out, LabelAfter)
    /\ pc' = "main_print2"
    /\ UNCHANGED <<arr, retpc, k, status, mainVars>>

MainPrint2 ==
    /\ pc = "main_print2"
    /\ pc' = "pa_test"
    /\ retpc' = "main_return"
    /\ k' = 0
    /\ UNCHANGED <<arr, out, status, mainVars>>

MainReturn ==
    /\ pc = "main_return"
    /\ status' = <<0>>
    /\ pc' = "exited"
    /\ UNCHANGED <<arr, retpc, out, k, mainVars>>

main ==
    \/ MainLabel1
    \/ MainPrint1
    \/ MainSort
    \/ MainLabel2
    \/ MainPrint2
    \/ MainReturn

---------------------------------------------------------------------------
(* printArray *)

history == <<input, tag, passes, cmps, swaps, touched>>

\* the range-for's iterator test, and the copy into num
PrintTest ==
    /\ pc = "pa_test"
    /\ IF k < Len(arr)
       THEN /\ num' = arr[k + 1]
            /\ pc' = "pa_body"
       ELSE /\ num' = num
            /\ pc' = "pa_endl"
    /\ UNCHANGED <<arr, retpc, n, i, j, k, out, status, history>>

PrintBody ==
    /\ pc = "pa_body"
    /\ out' = EmitElem(out, num)
    /\ k' = k + 1
    /\ pc' = "pa_test"
    /\ UNCHANGED <<arr, retpc, n, i, j, num, status, history>>

PrintEndl ==
    /\ pc = "pa_endl"
    /\ out' = Append(out, Endl)
    /\ pc' = retpc
    /\ UNCHANGED <<arr, retpc, n, i, j, k, num, status, history>>

printArray ==
    \/ PrintTest
    \/ PrintBody
    \/ PrintEndl

---------------------------------------------------------------------------
(* bubbleSort *)

printVars == <<k, num, out, status, input>>

\* int n = arr.size(); int i = 0
SortEntry ==
    /\ pc = "bs_entry"
    /\ n' = Len(arr)
    /\ i' = 0
    /\ pc' = "bs_outer"
    /\ UNCHANGED <<arr, retpc, j, printVars, tag, passes, cmps, swaps, touched>>

\* i < n - 1, then int j = 0; the function returns when the test fails
SortOuterTest ==
    /\ pc = "bs_outer"
    /\ IF OuterGuard(n, i)
       THEN /\ j' = 0
            /\ pc' = "bs_inner"
       ELSE /\ j' = j
            /\ pc' = retpc
    /\ UNCHANGED <<arr, retpc, n, i, printVars, tag, passes, cmps, swaps, touched>>

\* j < n - i - 1
SortInnerTest ==
    /\ pc = "bs_inner"
    /\ pc' = IF InnerGuard(n, i, j) THEN "bs_cmp" ELSE "bs_iinc"
    /\ UNCHANGED <<arr, retpc, n, i, j, printVars, tag, passes, cmps, swaps, touched>>

\* if (arr[j] > arr[j + 1])
SortCompare ==
    /\ pc = "bs_cmp"
    /\ \E x \in ReadVals(arr, j), y \in ReadVals(arr, j + 1) :
          pc' = IF Greater(x, y) THEN "bs_swap" ELSE "bs_jinc"
    /\ cmps' = cmps + 1
    /\ touched' = Touch(touched, j, j + 1, i)
    /\ UNCHANGED <<arr, retpc, n, i, j, printVars, tag, passes, swaps>>

\* std::swap(arr[j], arr[j + 1])
SortSwap ==
    /\ pc = "bs_swap"
    /\ arr' = SwapAt(arr, j, j + 1)
    /\ tag' = SwapAt(tag, j, j + 1)
    /\ swaps' = swaps + 1
    /\ touched' = Touch(touched, j, j + 1, i)
    /\ pc' = "bs_jinc"
    /\ UNCHANGED <<retpc, n, i, j, printVars, passes, cmps>>

\* j++
SortInnerInc ==
    /\ pc = "bs_jinc"
    /\ j' = j + 1
    /\ pc' = "bs_inner"
    /\ UNCHANGED <<arr, retpc, n, i, printVars, tag, passes, cmps, swaps, touched>>

\* i++
SortOuterInc ==
    /\ pc = "bs_iinc"
    /\ i' = i + 1
    /\ passes' = passes + 1
    /\ pc' = "bs_outer"
    /\ UNCHANGED <<arr, retpc, n, j, printVars, tag, cmps, swaps, touched>>

bubbleSort ==
    \/ SortEntry
    \/ SortOuterTest
    \/ SortInnerTest
    \/ SortCompare
    \/ SortSwap
    \/ SortInnerInc
    \/ SortOuterInc

---------------------------------------------------------------------------
(* Specifications *)

Next == main \/ printArray \/ bubbleSort

\* main over the bounded inputs
Spec == Init /\ [][Next]_vars

\* the statements of a sequential program run one after another until main
\* returns: whenever a statement is enabled, one is eventually executed
FairSpec == Init /\ [][Next]_vars /\ WF_vars(Next)

\* main as written, run to completion
MainSpec == MainInit /\ [][Next]_vars /\ WF_vars(Next)

---------------------------------------------------------------------------
(* Vocabulary of the properties *)

SortPcs == {"bs_entry", "bs_outer", "bs_inner", "bs_cmp", "bs_swap",
            "bs_jinc", "bs_iinc"}
BodyPcs == {"bs_inner", "bs_cmp", "bs_swap", "bs_jinc", "bs_iinc"}
PrintPcs == {"pa_test", "pa_body", "pa_endl"}

\* bubbleSort has not been called yet
BeforeSort ==
    \/ pc \in {"main_label1", "main_print1", "main_sort"}
    \/ pc \in PrintPcs /\ retpc = "main_sort"

\* bubbleSort has returned
AfterSort ==
    \/ pc \in {"main_label2", "main_print2", "main_return", "exited"}
    \/ pc \in PrintPcs /\ retpc = "main_return"

IsSorted(a) == \A p, q \in 1..Len(a) : p < q => a[p] <= a[q]

Count(a, v) == Cardinality({p \in 1..Len(a) : a[p] = v})

Range(a) == {a[p] : p \in 1..Len(a)}

SameBag(a, b) ==
    /\ Len(a) = Len(b)
    /\ \A v \in Range(a) \cup Range(b) : Count(a, v) = Count(b, v)

\* the integers written to std::cout, in order
NumsOf(o) ==
    LET ints == SelectSeq(o, LAMBDA t : t.kind = "int")
    IN  [p \in 1..Len(ints) |-> ints[p].num]

\* everything written to std::cout except the integers and the separators
FrameOf(o) ==
    SelectSeq(o, LAMBDA t : t.kind # "int" /\ t # StrTok(" "))

\* e1, space, e2, ..., space, ek: spaces only between the elements
Between(s) ==
    [p \in 1..(IF Len(s) = 0 THEN 0 ELSE 2 * Len(s) - 1) |->
        IF p % 2 = 1 THEN IntTok(s[(p + 1) \div 2]) ELSE StrTok(" ")]

\* e1, space, e2, space, ..., ek, space: a space after every element
Trailing(s) ==
    [p \in 1..(2 * Len(s)) |->
        IF p % 2 = 1 THEN IntTok(s[(p + 1) \div 2]) ELSE StrTok(" ")]

---------------------------------------------------------------------------
(* C1  Sortedness: once bubbleSort has returned, the vector is in          *)
(* non-decreasing order: arr[p] <= arr[q] for every pair p < q.            *)
C1_Sortedness == AfterSort => IsSorted(arr)

C1_Witness ==
    /\ pc = "main_label2"
    /\ ~IsSorted(input)
    /\ Len(input) = 4
    /\ swaps >= 3

(* C2  Permutation invariance: in every state the vector holds exactly the *)
(* values of the input with their multiplicities, and in particular        *)
(* [5, 3, 5, 1] is returned as [1, 3, 5, 5].                               *)
C2_Permutation ==
    /\ SameBag(arr, input)
    /\ (AfterSort /\ input = <<5, 3, 5, 1>>) => arr = <<1, 3, 5, 5>>

C2_Witness ==
    /\ pc = "main_label2"
    /\ input = <<5, 3, 5, 1>>
    /\ swaps > 0
    /\ Count(arr, 5) = 2

(* C3  Empty/singleton boundary: for a vector of length 0 or 1 the loop    *)
(* bound n - 1 is -1 or 0, the outer loop body never runs, and bubbleSort  *)
(* returns the vector unchanged without any comparison, swap or element    *)
(* access.                                                                 *)
C3_Boundary ==
    Len(input) <= 1 =>
        /\ arr = input
        /\ pc \notin BodyPcs
        /\ passes = 0 /\ cmps = 0 /\ swaps = 0
        /\ \A p \in 1..Len(touched) : touched[p] = -1
        /\ pc = "bs_outer" => (n = Len(input) /\ n - 1 \in {-1, 0})

C3_Witness ==
    /\ pc = "main_label2"
    /\ input = <<>>
    /\ n = 0
    /\ arr = <<>>

(* C4  Concrete scenario: main prints [64, 34, 25, 12, 22, 11, 90] in that *)
(* order, then sorts, then prints [11, 12, 22, 25, 34, 64, 90], in the     *)
(* order print, sort, print, and then returns 0.                           *)
C4_State ==
    /\ BeforeSort => (arr = MainInput /\ cmps = 0)
    /\ pc \in SortPcs =>
          (NumsOf(out) = MainInput /\ FrameOf(out) = <<LabelBefore, Endl>>)
    /\ AfterSort => arr = <<11, 12, 22, 25, 34, 64, 90>>
    /\ pc = "main_label2" => NumsOf(out) = MainInput
    /\ status = (IF pc = "exited" THEN <<0>> ELSE <<>>)
    /\ pc = "exited" =>
          /\ NumsOf(out) = MainInput \o <<11, 12, 22, 25, 34, 64, 90>>
          /\ FrameOf(out) = <<LabelBefore, Endl, LabelAfter, Endl>>
          /\ out[1] = LabelBefore
          /\ out[2 * Len(MainInput) + 3] = LabelAfter

C4_Scenario == []C4_State /\ <>(pc = "exited")

C4_Witness ==
    /\ pc = "exited"
    /\ input = MainInput
    /\ status = <<0>>
    /\ Len(NumsOf(out)) = 14

(* C5  Idempotence: a sorted vector is returned identical, and sorting the *)
(* result of bubbleSort again gives that result.                           *)
C5_Idempotence ==
    AfterSort =>
        /\ IsSorted(input) => arr = input
        /\ arr = bubbleSortResult(input)
        /\ bubbleSortResult(arr) = arr

C5_Witness ==
    /\ pc = "main_label2"
    /\ IsSorted(input)
    /\ Len(input) = 4
    /\ input[1] < input[2] /\ input[3] < input[4]
    /\ arr = input

(* C6  No out-of-bounds access: whenever arr[j] and arr[j + 1] are about   *)
(* to be accessed, 0 <= j and j + 1 <= n - 1, n being the vector's length. *)
C6_InBounds ==
    pc \in {"bs_cmp", "bs_swap"} =>
        /\ n = Len(arr)
        /\ 0 <= j
        /\ j + 1 <= n - 1

C6_Witness ==
    /\ pc = "bs_swap"
    /\ n = 4
    /\ j + 1 = n - 1

(* C7  Printer format.  As claimed: printArray writes e1, space, e2, ...,  *)
(* space, ek, newline, with spaces only between the elements.              *)
C7_Original ==
    pc = "main_sort" => out = <<LabelBefore>> \o Between(arr) \o <<Endl>>

(* C7, amended: printArray writes every element in index order, each one   *)
(* followed by a single space (the last one too), then the line            *)
(* terminator, and it does not modify the vector.                          *)
C7_Format ==
    /\ pc = "main_sort" =>
          out = <<LabelBefore>> \o Trailing(arr) \o <<Endl>>
    /\ pc = "main_return" =>
          out = <<LabelBefore>> \o Trailing(input) \o <<Endl>>
                \o <<LabelAfter>> \o Trailing(arr) \o <<Endl>>

C7_Frame == pc \in PrintPcs => arr' = arr

C7_Printer == []C7_Format /\ [][C7_Frame]_vars

C7_Witness ==
    /\ pc = "main_return"
    /\ Len(arr) = 3
    /\ arr # input
    /\ out[Len(out)] = Endl
    /\ out[Len(out) - 1] = StrTok(" ")
    /\ out[Len(out) - 2] = IntTok(arr[3])

(* C8  Pass invariant: once outer iteration i has completed, the last     *)
(* i + 1 positions hold the i + 1 largest values in non-decreasing order,  *)
(* they keep those values until bubbleSort returns, and no later pass      *)
(* reads or writes them.                                                   *)

\* position p (0-based) is among the last `passes` positions
Settled(p) == p >= Len(arr) - passes

C8_State ==
    /\ passes <= Len(arr) - 1 \/ passes = 0
    /\ SameBag(arr, input)
    /\ \A p, q \in 0..(Len(arr) - 1) :
          (Settled(q) /\ p < q) => arr[p + 1] <= arr[q + 1]
    /\ \A p \in 0..(Len(arr) - 1) :
          Settled(p) => touched[p + 1] < passes
    /\ \A p \in 1..(Len(arr) - 1) :
          touched[p + 1] <= Len(arr) - 1 - p

C8_Frozen ==
    /\ Len(arr') = Len(arr)
    /\ \A p \in 0..(Len(arr) - 1) : Settled(p) => arr'[p + 1] = arr[p + 1]

C8_PassInvariant == []C8_State /\ [][C8_Frozen]_vars

C8_Witness ==
    /\ pc = "bs_swap"
    /\ passes = 1
    /\ Len(arr) = 4
    /\ j = 1
    /\ arr[4] = 5

(* C9  Termination without early exit: bubbleSort returns, and when it     *)
(* has returned it has run exactly max(n - 1, 0) outer passes and exactly  *)
(* n(n - 1)/2 comparisons, whatever the values, sorted inputs included.    *)
C9_Counts ==
    AfterSort =>
        /\ passes = (IF Len(input) >= 1 THEN Len(input) - 1 ELSE 0)
        /\ cmps = (Len(input) * (Len(input) - 1)) \div 2

C9_Termination == []C9_Counts /\ <>(pc = "main_label2")

C9_Witness ==
    /\ pc = "main_label2"
    /\ IsSorted(input)
    /\ Len(input) = 4
    /\ swaps = 0
    /\ passes = 3
    /\ cmps = 6

(* C10  Strict-comparison swap and stability: a step either leaves the     *)
(* vector unchanged or exchanges exactly positions j and j + 1; it         *)
(* exchanges them if and only if arr[j] > arr[j + 1]; and elements of      *)
(* equal value stay in their original relative order.                      *)
C10_Step ==
    /\ \/ arr' = arr
       \/ /\ pc = "bs_swap"
          /\ InBounds(arr, j) /\ InBounds(arr, j + 1)
          /\ arr[j + 1] > arr[j + 2]
          /\ arr' = [arr EXCEPT ![j + 1] = arr[j + 2], ![j + 2] = arr[j + 1]]
    /\ pc = "bs_cmp" =>
          pc' = (IF arr[j + 1] > arr[j + 2] THEN "bs_swap" ELSE "bs_jinc")
    /\ pc = "bs_swap" => arr' # arr

C10_Stable ==
    /\ Len(tag) = Len(arr)
    /\ \A p \in 1..Len(arr) : arr[p] = input[tag[p] + 1]
    /\ \A p, q \in 1..Len(arr) :
          (p < q /\ arr[p] = arr[q]) => tag[p] < tag[q]

C10_StrictSwap == [][C10_Step]_vars /\ []C10_Stable

C10_Witness ==
    /\ pc = "main_label2"
    /\ input = <<5, 3, 5, 1>>
    /\ arr = <<1, 3, 5, 5>>
    /\ tag = <<3, 1, 0, 2>>

===========================================================================
